---- MODULE Spec2Model ----
(***************************************************************************)
(* A model of ghrfs, the GitHub release file system (src/ghrfs.go,         *)
(* src/options.go).  The state is one ReleaseFileSystem: its Options, its  *)
(* Release (asset sequence and name index), the cache directory on disk,   *)
(* the throttler of the running CacheRelease and the transfer goroutines   *)
(* it spawned.  Strings that the code takes apart (asset names, whose      *)
(* extension the cache filter reads) are sequences of characters.          *)
(***************************************************************************)
EXTENDS Integers, Sequences, FiniteSets, TLC

VARIABLES
    opts,       \* rfs.Options
    assets,     \* rfs.Release.Assets: the AssetFile entities, in load order
    fileIndex,  \* rfs.Release.fileIndex: name -> position in assets
    server,     \* the release payload the metadata endpoint serves
    exposed,    \* "pending" while New runs, "yes" once it returned rfs, "no" if it returned nil
    cacheDir,   \* files below Options.CachePath: name -> content
    manifest,   \* whether .release-data.json exists in the cache directory
    pc,         \* position of the calling thread
    caller,     \* who called the running CacheRelease: "user", "load" or "new"
    crIdx,      \* position of CacheRelease's range loop
    t,          \* the throttler of the running (or last) CacheRelease
    workers,    \* the transfer goroutines: per asset position, [pc, src, copied]
    leaked,     \* some asset's live stream was overwritten without being closed
    ret         \* what the last finished call returned (NoRet while CacheRelease runs)

vars == <<opts, assets, fileIndex, server, exposed, cacheDir, manifest,
          pc, caller, crIdx, t, workers, leaked, ret>>

----------------------------------------------------------------------------
(* Bounds of the model *)

MaxAssets == 2

MaxParallel == 2

----------------------------------------------------------------------------
(* Strings *)

NameAT == <<"a", ".", "t">>
NameBB == <<"b", ".", "b">>
NameNone == <<>>
NameMissing == <<"m", ".", "t">>
NameDot == <<".">>
NameSlash == <<"/">>

ExtT == <<"t">>

\* Position of the last "." of s, 0 if there is none.
LastDot(s) ==
    IF \E i \in 1..Len(s) : s[i] = "."
    THEN CHOOSE i \in 1..Len(s) : s[i] = "." /\ \A j \in (i+1)..Len(s) : s[j] # "."
    ELSE 0

\* strings.TrimPrefix(filepath.Ext(name), "."): what follows the last dot.
TrimmedExt(s) ==
    IF LastDot(s) = 0 THEN <<>> ELSE SubSeq(s, LastDot(s) + 1, Len(s))

\* slices.Contains
Contains(list, x) == \E i \in 1..Len(list) : list[i] = x

----------------------------------------------------------------------------
(* Asset entities *)

NoStream == [kind |-> "nil", data |-> 0, name |-> <<>>]

\* What the metadata endpoint can serve for one asset (ReleaseData JSON).
AssetPool ==
    { [ID |-> 1, IName |-> NameAT,   ISize |-> 1, URL |-> "u1"],
      [ID |-> 2, IName |-> NameAT,   ISize |-> 3, URL |-> "u2"],
      [ID |-> 3, IName |-> NameBB,   ISize |-> 3, URL |-> ""],
      [ID |-> 4, IName |-> NameNone, ISize |-> 1, URL |-> "u4"] }

\* A decoded AssetFile: the JSON fields, no stream, no cache path.
Decoded(m) ==
    [ID |-> m.ID, IName |-> m.IName, ISize |-> m.ISize, URL |-> m.URL,
     DataStream |-> NoStream, cachePath |-> FALSE]

Payloads ==
    { s \in UNION { [1..n -> AssetPool] : n \in 0..MaxAssets } :
        \A i, j \in 1..Len(s) : i # j => s[i].ID # s[j].ID }

FileNames == { m.IName : m \in AssetPool } \ {NameNone}

OpenNames == { m.IName : m \in AssetPool } \cup {NameMissing, NameDot}

NoFile == [id |-> 0, size |-> -1]

\* The IDs of a sequence of assets, in order.
IDs(as) == [i \in 1..Len(as) |-> as[i].ID]

\* An index that keeps the entries of the index before it.
BuildIndexMerging(as) ==
    [ n \in DOMAIN fileIndex \cup { as[i].IName : i \in { k \in 1..Len(as) : as[k].IName # <<>> } } |->
        IF \E i \in 1..Len(as) : as[i].IName = n
        THEN CHOOSE i \in 1..Len(as) :
                 as[i].IName = n /\ \A j \in (i+1)..Len(as) : as[j].IName # n
        ELSE fileIndex[n] ]

\* The index LoadRelease builds: the last position of every non-empty name.
BuildIndex(as) ==
    [ n \in { as[i].IName : i \in { k \in 1..Len(as) : as[k].IName # <<>> } } |->
        CHOOSE i \in 1..Len(as) :
            as[i].IName = n /\ \A j \in (i+1)..Len(as) : as[j].IName # n ]

Indexed(n) == n \in DOMAIN fileIndex

\* resp.Body of the GET of the asset's URL: delivers that asset's bytes.
RemoteStream(as, i) == [kind |-> "remote", data |-> as[i].ID, name |-> <<>>]

\* The *os.File of the cache file of that name.
FileStream(as, n) == [kind |-> "file", data |-> 0, name |-> n]

----------------------------------------------------------------------------
(* The open resolver.  Every operator yields the set of outcomes the call   *)
(* can have: the error returned ("nil" for none), the position of the      *)
(* asset returned (0 for none), the asset sequence after the call, and the *)
(* number of remote GETs and of cache-file opens the call made.            *)

Outcome(err, file, as, gets, copens, lk) ==
    [err |-> err, file |-> file, assets |-> as, gets |-> gets,
     copens |-> copens, leaked |-> lk]

\* What building a client for the asset's host, and the GET, can answer.
ClientResults == {"ok", "err"}
CallResults == {"ok", "err"}
\* What os.Open can answer besides "the file is there or not".
OsOpenResults == {"ok", "eacces"}

Attach(as, i, stream) == [as EXCEPT ![i].DataStream = stream]

\* OpenRemoteFile returns the asset file connected to its data stream.
OpenRemoteFile(name) ==
    IF ~Indexed(name)
    THEN { Outcome("ErrNotExist", 0, assets, 0, 0, FALSE) }
    ELSE LET i == fileIndex[name] IN
         IF assets[i].URL = ""
         THEN { Outcome("no URL", 0, assets, 0, 0, FALSE) }
         ELSE { Outcome("client", 0, assets, 0, 0, FALSE) : c \in ClientResults \ {"ok"} }
              \cup { Outcome("transport", 0, assets, 1, 0, FALSE) : r \in CallResults \ {"ok"} }
              \cup { Outcome("nil", i, Attach(assets, i, RemoteStream(assets, i)), 1, 0,
                             assets[i].DataStream # NoStream) }

OpenCachedFileFallsBackOnAnyError(name) ==
    IF ~Indexed(name)
    THEN { Outcome("ErrNotExist", 0, assets, 0, 0, FALSE) }
    ELSE IF ~opts.Cache
    THEN { Outcome("not cached", 0, assets, 0, 0, FALSE) }
    ELSE IF opts.CachePath = ""
    THEN { Outcome("cache path not set", 0, assets, 0, 0, FALSE) }
    ELSE LET i == fileIndex[name] IN
         { [o EXCEPT !.copens = 1] : o \in OpenRemoteFile(name) }
         \cup IF cacheDir[name] = NoFile
              THEN {}
              ELSE { Outcome("nil", i, Attach(assets, i, FileStream(assets, name)), 0, 1,
                             assets[i].DataStream # NoStream) }

\* OpenCachedFile returns the asset file connected to its local cached file.
OpenCachedFile(name) ==
    IF ~Indexed(name)
    THEN { Outcome("ErrNotExist", 0, assets, 0, 0, FALSE) }
    ELSE IF ~opts.Cache
    THEN { Outcome("not cached", 0, assets, 0, 0, FALSE) }
    ELSE IF opts.CachePath = ""
    THEN { Outcome("cache path not set", 0, assets, 0, 0, FALSE) }
    ELSE LET i == fileIndex[name] IN
         { Outcome("cache io", 0, assets, 0, 1, FALSE) : r \in OsOpenResults \ {"ok"} }
         \cup IF cacheDir[name] = NoFile
              THEN { [o EXCEPT !.copens = 1] : o \in OpenRemoteFile(name) }
              ELSE { Outcome("nil", i, Attach(assets, i, FileStream(assets, name)), 0, 1,
                             assets[i].DataStream # NoStream) }

OpenAssetNeverReuses(name) ==
    IF ~Indexed(name)
    THEN { Outcome("ErrNotExist", 0, assets, 0, 0, FALSE) }
    ELSE IF opts.Cache THEN OpenCachedFile(name) ELSE OpenRemoteFile(name)

OpenAssetIgnoresMissing(name) ==
    IF ~Indexed(name)
    THEN IF Len(assets) = 0
         THEN { Outcome("ErrNotExist", 0, assets, 0, 0, FALSE) }
         ELSE { Outcome("nil", 1, Attach(assets, 1, RemoteStream(assets, 1)), 1, 0,
                        assets[1].DataStream # NoStream) }
    ELSE IF assets[fileIndex[name]].DataStream # NoStream
    THEN { Outcome("nil", fileIndex[name], assets, 0, 0, FALSE) }
    ELSE IF opts.Cache THEN OpenCachedFile(name) ELSE OpenRemoteFile(name)

OpenAssetCacheFlagInverted(name) ==
    IF ~Indexed(name)
    THEN { Outcome("ErrNotExist", 0, assets, 0, 0, FALSE) }
    ELSE IF assets[fileIndex[name]].DataStream # NoStream
    THEN { Outcome("nil", fileIndex[name], assets, 0, 0, FALSE) }
    ELSE IF ~opts.Cache THEN OpenCachedFile(name) ELSE OpenRemoteFile(name)

\* Open of an asset name (the part of Open after the "." case).
OpenAsset(name) ==
    IF ~Indexed(name)
    THEN { Outcome("ErrNotExist", 0, assets, 0, 0, FALSE) }
    ELSE IF assets[fileIndex[name]].DataStream # NoStream
    THEN { Outcome("nil", fileIndex[name], assets, 0, 0, FALSE) }
    ELSE IF opts.Cache THEN OpenCachedFile(name) ELSE OpenRemoteFile(name)

ReversedEntries(as) == [ i \in 1..Len(as) |-> as[Len(as) + 1 - i].ID ]

\* The DirEntry list Open(".") and ReadDir build: the assets, in order.
DirEntries(as) == [ i \in 1..Len(as) |-> as[i].ID ]

\* ReleaseDir.ReadDir(n): the whole list, whatever n.
ReleaseDirReadDir(assetFiles) == assetFiles

----------------------------------------------------------------------------
(* The throttler (github.com/nozzle/throttler, the version src/go.mod pins) *)
(* as CacheRelease uses it: New, Throttle and Done.  Throttle runs on the   *)
(* calling thread only; it blocks where it receives from doneChan.          *)

NoThrottler ==
    [maxWorkers |-> 0, totalJobs |-> 0, workerCount |-> 0, jobsStarted |-> 0,
     jobsCompleted |-> 0, doneChan |-> 0, errorCount |-> 0]

\* throttler.New(maxWorkers, totalJobs); doneChan is buffered for totalJobs.
ThrottlerNew(maxWorkers, totalJobs) ==
    [NoThrottler EXCEPT !.maxWorkers = maxWorkers, !.totalJobs = totalJobs]

\* A join that waits for one Done more than there are jobs.
ThrottleJoinWaitsOneMore(th) ==
    IF th.jobsStarted = th.totalJobs /\ th.jobsCompleted <= th.totalJobs
    THEN [t |-> [th EXCEPT !.jobsCompleted = @ + 1], pc |-> "recv_all"]
    ELSE [t |-> th, pc |-> "loop"]

\* The second half of Throttle: once every job has been started, count and
\* receive until every job has completed.  Yields the throttler and where
\* the caller is next: blocked in the receive, or back in the loop.
ThrottleJoin(th) ==
    IF th.jobsStarted = th.totalJobs /\ th.jobsCompleted < th.totalJobs
    THEN [t |-> [th EXCEPT !.jobsCompleted = @ + 1], pc |-> "recv_all"]
    ELSE [t |-> th, pc |-> "loop"]

\* The first half of Throttle: count the job and the worker; with
\* maxWorkers workers counted, give one back and wait for one Done.
ThrottleEnter(th) ==
    IF th.totalJobs < 1
    THEN [t |-> th, pc |-> "loop"]
    ELSE LET th1 == [th EXCEPT !.jobsStarted = @ + 1, !.workerCount = @ + 1] IN
         IF th1.workerCount = th1.maxWorkers
         THEN [t |-> [th1 EXCEPT !.jobsCompleted = @ + 1, !.workerCount = @ - 1],
               pc |-> "recv_slot"]
         ELSE ThrottleJoin(th1)

\* <-t.doneChan
Receive(th) == [th EXCEPT !.doneChan = @ - 1]

\* A Done that records an error and sends nothing for it.
ThrottlerDoneDropsErrors(th, err) ==
    [th EXCEPT !.errorCount = IF err = "nil" THEN @ ELSE @ + 1,
               !.doneChan = IF err = "nil" THEN @ + 1 ELSE @]

\* t.Done(err): record the error, then send on doneChan.
ThrottlerDone(th, err) ==
    [th EXCEPT !.errorCount = IF err = "nil" THEN @ ELSE @ + 1,
               !.doneChan = @ + 1]

----------------------------------------------------------------------------
(* Results of calls: the call, its argument, the error ("nil" for none),   *)
(* the position of the asset returned, the directory listing returned, the *)
(* remote GETs and cache-file opens the call made, and for CacheRelease    *)
(* its own return value and the errors its transfers reported to Done.     *)
(* For a load: whether the call assigned rfs.Release (replaced) and        *)
(* whether what it assigned differs from the release held before.          *)

NoRet ==
    [op |-> "none", name |-> <<>>, err |-> "nil", file |-> 0, isDir |-> FALSE,
     dir |-> <<>>, gets |-> 0, copens |-> 0, had |-> FALSE, cr |-> "none",
     errs |-> 0, reopen |-> FALSE, replaced |-> FALSE, changed |-> FALSE]

Ret(op, name, err) == [NoRet EXCEPT !.op = op, !.name = name, !.err = err]

\* The result of an open, with whether the named asset held a live stream
\* when the call began, and whether the call before it closed that asset.
RetOpen(op, name, o) ==
    [NoRet EXCEPT !.op = op, !.name = name, !.err = o.err, !.file = o.file,
                  !.gets = o.gets, !.copens = o.copens,
                  !.had = (Indexed(name) /\ assets[fileIndex[name]].DataStream # NoStream),
                  !.reopen = (ret.op = "Close" /\ Indexed(name) /\ ret.file = fileIndex[name])]

Idle == pc = "idle" /\ exposed = "yes"

----------------------------------------------------------------------------
(* Construction and LoadRelease *)

CacheDir == "/cache"

OptionSets ==
    [Cache : BOOLEAN, CachePath : {"", CacheDir}, CacheMaxSize : {0, 2},
     CacheExtensions : {<<>>, <<ExtT>>}, ParallelDownloads : 1..MaxParallel]

Init ==
    /\ opts \in OptionSets
    /\ server \in Payloads
    /\ assets = <<>>
    /\ fileIndex = [n \in {} |-> 0]
    /\ exposed = "pending"
    /\ cacheDir = [n \in FileNames |-> NoFile]
    /\ manifest = FALSE
    /\ pc = "new"
    /\ caller = "none"
    /\ crIdx = 0
    /\ t = NoThrottler
    /\ workers = <<>>
    /\ leaked = FALSE
    /\ ret = NoRet

\* What the metadata call can answer: no response at all (err set, resp
\* nil), a response with a failing status, a response with err set, a body
\* that does not decode, a body that decodes.
LoadResults == {"noresp", "status", "callerr", "decode", "ok"}

\* A call that returns to its caller: New answers rfs or nil, a reload
\* answers the error.
Return(who, r) ==
    /\ ret' = [r EXCEPT !.op = IF who = "new" THEN "New"
                                ELSE IF who = "load" THEN "LoadRelease" ELSE @]
    /\ exposed' = IF who = "new" THEN (IF r.err = "nil" THEN "yes" ELSE "no") ELSE exposed
    /\ pc' = "idle"
    /\ caller' = "none"

LoadRelease(who) ==
    \E res \in LoadResults :
        /\ UNCHANGED <<server, cacheDir, manifest, crIdx, t, workers, opts>>
        /\ CASE res = "noresp" ->
                  /\ pc' = "panic"
                  /\ ret' = Ret(IF who = "new" THEN "New" ELSE "LoadRelease", <<>>, "panic")
                  /\ UNCHANGED <<assets, fileIndex, exposed, leaked, caller>>
             [] res = "status" ->
                  /\ Return(who, Ret("LoadRelease", <<>>, "HTTP error"))
                  /\ UNCHANGED <<assets, fileIndex, leaked>>
             [] res = "callerr" ->
                  /\ Return(who, Ret("LoadRelease", <<>>, "loading release"))
                  /\ UNCHANGED <<assets, fileIndex, leaked>>
             [] res = "decode" ->
                  /\ Return(who, Ret("LoadRelease", <<>>, "unmarshaling release data"))
                  /\ UNCHANGED <<assets, fileIndex, leaked>>
             [] res = "ok" ->
                  /\ assets' = [i \in 1..Len(server) |-> Decoded(server[i])]
                  /\ fileIndex' = BuildIndex(assets')
                  /\ leaked' = leaked
                  /\ IF opts.Cache
                     THEN pc' = "cr_call" /\ caller' = who /\ ret' = NoRet /\ UNCHANGED exposed
                     ELSE Return(who, [Ret("LoadRelease", <<>>, "nil") EXCEPT
                                         !.replaced = TRUE,
                                         !.changed = (who = "load" /\ IDs(assets) # IDs(server))])

\* NewWithOptions: build the rfs and load the release.
NewWithOptions ==
    /\ pc = "new"
    /\ LoadRelease("new")

\* LoadRelease called again on a built file system.
Reload ==
    /\ Idle
    /\ LoadRelease("load")

----------------------------------------------------------------------------
(* CacheRelease: the calling thread *)

MkdirTempResults == {"ok", "err"}
CreateResults == {"ok", "err"}
EncodeResults == {"ok", "err"}
CopyResults == {"ok", "err"}

\* An os.MkdirTemp that answers the empty path.
TempDirEmpty == ""

\* The cache directory of a run: the configured one, or else the one
\* os.MkdirTemp makes.  A run has one, so the model has one name for it.
TempDir == CacheDir

\* CacheRelease returns crerr to who called it; LoadRelease wraps an error
\* and hands it on, New then drops the rfs.
ReturnCacheRelease(who, crerr) ==
    Return(who, [Ret("CacheRelease", <<>>,
                     IF who = "user" \/ crerr = "nil" THEN crerr ELSE "caching release")
                 EXCEPT !.cr = crerr, !.errs = t.errorCount, !.replaced = (who # "user")])

\* A CacheRelease that starts its loop without writing the manifest.
CacheReleaseBeginNoManifest ==
    /\ pc = "cr_call" \/ Idle
    /\ LET who == IF pc = "cr_call" THEN caller ELSE "user" IN
       \E mk \in MkdirTempResults :
         /\ UNCHANGED <<assets, fileIndex, server, cacheDir, leaked, manifest>>
         /\ IF opts.CachePath = "" /\ mk = "err"
            THEN /\ ReturnCacheRelease(who, "creating temporary cache dir")
                 /\ UNCHANGED <<opts, crIdx, t, workers>>
            ELSE /\ opts' = [opts EXCEPT !.CachePath = IF @ = "" THEN TempDir ELSE @]
                 /\ t' = ThrottlerNew(opts.ParallelDownloads, Len(assets))
                 /\ caller' = who
                 /\ workers' = [i \in 1..Len(assets) |-> [pc |-> "none", src |-> 0, copied |-> FALSE]]
                 /\ crIdx' = 1
                 /\ pc' = "loop"
                 /\ ret' = NoRet
                 /\ UNCHANGED exposed

\* CacheRelease up to its loop: the cache directory, the manifest, the
\* throttler.
CacheReleaseBegin ==
    /\ pc = "cr_call" \/ Idle
    /\ LET who == IF pc = "cr_call" THEN caller ELSE "user" IN
       \E mk \in MkdirTempResults, cr \in CreateResults, en \in EncodeResults :
         /\ UNCHANGED <<assets, fileIndex, server, cacheDir, leaked>>
         /\ IF opts.CachePath = "" /\ mk = "err"
            THEN /\ ReturnCacheRelease(who, "creating temporary cache dir")
                 /\ UNCHANGED <<opts, manifest, crIdx, t, workers>>
            ELSE /\ opts' = [opts EXCEPT !.CachePath = IF @ = "" THEN TempDir ELSE @]
                 /\ IF cr = "err"
                    THEN /\ ReturnCacheRelease(who, "creating release data file")
                         /\ UNCHANGED <<manifest, crIdx, t, workers>>
                    ELSE /\ manifest' = TRUE
                         /\ IF en = "err"
                            THEN /\ ReturnCacheRelease(who, "encoding release data")
                                 /\ UNCHANGED <<crIdx, t, workers>>
                            ELSE IF opts.ParallelDownloads < 1
                            THEN /\ pc' = "panic"
                                 /\ UNCHANGED <<crIdx, t, workers, exposed, ret, caller>>
                            ELSE /\ t' = ThrottlerNew(opts.ParallelDownloads, Len(assets))
                                 /\ caller' = who
                                 /\ workers' = [i \in 1..Len(assets) |-> [pc |-> "none", src |-> 0, copied |-> FALSE]]
                                 /\ crIdx' = 1
                                 /\ pc' = "loop"
                                 /\ ret' = NoRet
                                 /\ UNCHANGED exposed

\* The head of the range loop: start the next asset's transfer, or leave the
\* loop, set the cache flag and return nil.
CacheReleaseLoop ==
    /\ pc = "loop"
    /\ UNCHANGED <<assets, fileIndex, server, cacheDir, manifest, leaked>>
    /\ IF crIdx <= Len(assets)
       THEN /\ workers' = [workers EXCEPT ![crIdx].pc = "start"]
            /\ pc' = "throttle"
            /\ UNCHANGED <<opts, crIdx, exposed, ret, caller, t>>
       ELSE /\ opts' = [opts EXCEPT !.Cache = TRUE]
            /\ ReturnCacheRelease(caller, "nil")
            /\ t' = NoThrottler
            /\ crIdx' = 0
            /\ UNCHANGED workers

CacheReleaseNoThrottle ==
    /\ pc = "throttle"
    /\ pc' = "loop"
    /\ crIdx' = crIdx + 1
    /\ UNCHANGED <<opts, assets, fileIndex, server, exposed, cacheDir, manifest,
                   caller, workers, leaked, ret, t>>

\* t.Throttle() at the end of the loop body, up to where it blocks.
CacheReleaseThrottle ==
    /\ pc = "throttle"
    /\ LET n == ThrottleEnter(t) IN
         /\ t' = n.t
         /\ pc' = n.pc
         /\ crIdx' = IF n.pc = "loop" THEN crIdx + 1 ELSE crIdx
    /\ UNCHANGED <<opts, assets, fileIndex, server, exposed, cacheDir, manifest,
                   caller, workers, leaked, ret>>

\* Throttle blocked for a free slot: one Done arrives.
ThrottleRecvSlot ==
    /\ pc = "recv_slot"
    /\ t.doneChan > 0
    /\ LET n == ThrottleJoin(Receive(t)) IN
         /\ t' = n.t
         /\ pc' = n.pc
         /\ crIdx' = IF n.pc = "loop" THEN crIdx + 1 ELSE crIdx
    /\ UNCHANGED <<opts, assets, fileIndex, server, exposed, cacheDir, manifest,
                   caller, workers, leaked, ret>>

\* Throttle blocked for the last jobs: one Done arrives.
ThrottleRecvAll ==
    /\ pc = "recv_all"
    /\ t.doneChan > 0
    /\ LET n == ThrottleJoin(Receive(t)) IN
         /\ t' = n.t
         /\ pc' = n.pc
         /\ crIdx' = IF n.pc = "loop" THEN crIdx + 1 ELSE crIdx
    /\ UNCHANGED <<opts, assets, fileIndex, server, exposed, cacheDir, manifest,
                   caller, workers, leaked, ret>>

----------------------------------------------------------------------------
(* CacheRelease: the transfer goroutine of the asset at position w *)

\* Skip if over max size
SkipSize(a) == opts.CacheMaxSize > 0 /\ opts.CacheMaxSize < a.ISize

\* Skip if extensions are defined but the file ext is not one of them
SkipExt(a) ==
    /\ Len(opts.CacheExtensions) > 0
    /\ \/ TrimmedExt(a.IName) = <<>>
       \/ ~Contains(opts.CacheExtensions, TrimmedExt(a.IName))

Filtered(a) == SkipSize(a) \/ SkipExt(a)

Running(w) == pc # "panic" /\ w \in 1..Len(workers)

\* t.Done(err); return.  The goroutine has copied its asset when it ends
\* after the copy and the close.
Finish(w, err) ==
    /\ t' = ThrottlerDone(t, err)
    /\ workers' = [workers EXCEPT ![w] = [pc |-> "done", src |-> 0, copied |-> (workers[w].pc = "finish")]]

SizeOf(id) == (CHOOSE m \in AssetPool : m.ID = id).ISize

\* The bytes a stream delivers: the remote asset's, or the cache file's as
\* it is on disk when read.
Content(stream) ==
    IF stream.kind = "remote"
    THEN [id |-> stream.data, size |-> SizeOf(stream.data)]
    ELSE cacheDir[stream.name]

\* The filters, and the choice of the source.
TransferStart(w) ==
    /\ Running(w) /\ workers[w].pc = "start"
    /\ UNCHANGED <<opts, assets, fileIndex, server, exposed, cacheDir, manifest,
                   pc, caller, crIdx, leaked, ret>>
    /\ IF Filtered(assets[w])
       THEN Finish(w, "nil")
       ELSE IF assets[w].DataStream # NoStream
       THEN workers' = [workers EXCEPT ![w] = [pc |-> "create", src |-> w, copied |-> FALSE]] /\ t' = t
       ELSE workers' = [workers EXCEPT ![w].pc = "open"] /\ t' = t

\* src, err = rfs.OpenRemoteFile(a.Name())
TransferOpen(w) ==
    /\ Running(w) /\ workers[w].pc = "open"
    /\ UNCHANGED <<opts, fileIndex, server, exposed, cacheDir, manifest,
                   pc, caller, crIdx, ret>>
    /\ \E o \in OpenRemoteFile(assets[w].IName) :
         /\ assets' = o.assets
         /\ leaked' = (leaked \/ o.leaked)
         /\ IF o.err # "nil"
            THEN Finish(w, o.err)
            ELSE workers' = [workers EXCEPT ![w] = [pc |-> "create", src |-> o.file, copied |-> FALSE]] /\ t' = t

\* dst, err := os.Create(filepath.Join(rfs.Options.CachePath, a.Name()))
TransferCreate(w) ==
    /\ Running(w) /\ workers[w].pc = "create"
    /\ UNCHANGED <<opts, assets, fileIndex, server, exposed, manifest,
                   pc, caller, crIdx, leaked, ret>>
    /\ \E cr \in CreateResults :
         IF cr = "err" \/ assets[w].IName = <<>>
         THEN Finish(w, "create") /\ UNCHANGED cacheDir
         ELSE /\ cacheDir' = [cacheDir EXCEPT ![assets[w].IName] = [id |-> 0, size |-> 0]]
              /\ workers' = [workers EXCEPT ![w].pc = "copy"]
              /\ t' = t

\* io.Copy(dst, src)
TransferCopy(w) ==
    /\ Running(w) /\ workers[w].pc = "copy"
    /\ UNCHANGED <<opts, assets, fileIndex, server, exposed, manifest,
                   caller, crIdx, leaked, ret>>
    /\ IF assets[workers[w].src].DataStream = NoStream
       THEN pc' = "panic" /\ UNCHANGED <<cacheDir, workers, t>>
       ELSE /\ pc' = pc
            /\ \E cp \in CopyResults :
                 IF cp = "err"
                 THEN Finish(w, "copy") /\ UNCHANGED cacheDir
                 ELSE /\ cacheDir' = [cacheDir EXCEPT ![assets[w].IName] =
                                         Content(assets[workers[w].src].DataStream)]
                      /\ workers' = [workers EXCEPT ![w].pc = "finish"]
                      /\ t' = t

\* a.cachePath = ...; a.DataStream.Close(); a.DataStream = nil; t.Done(nil)
TransferFinish(w) ==
    /\ Running(w) /\ workers[w].pc = "finish"
    /\ UNCHANGED <<opts, fileIndex, server, exposed, cacheDir, manifest,
                   caller, crIdx, leaked, ret>>
    /\ IF assets[w].DataStream = NoStream
       THEN pc' = "panic" /\ UNCHANGED <<assets, workers, t>>
       ELSE /\ pc' = pc
            /\ assets' = [assets EXCEPT ![w].cachePath = TRUE, ![w].DataStream = NoStream]
            /\ Finish(w, "nil")

Transfer(w) ==
    \/ TransferStart(w)
    \/ TransferOpen(w)
    \/ TransferCreate(w)
    \/ TransferCopy(w)
    \/ TransferFinish(w)

----------------------------------------------------------------------------
(* Calls of the file system's user, made while no other call is running *)

Frame == UNCHANGED <<opts, fileIndex, server, exposed, cacheDir, manifest,
                     pc, caller, crIdx, t, workers>>

\* Open(".")
OpenRoot ==
    /\ Idle
    /\ ret' = [Ret("Open", NameDot, "nil") EXCEPT !.isDir = TRUE, !.dir = DirEntries(assets)]
    /\ UNCHANGED <<assets, leaked>>
    /\ Frame

\* Open(name), name other than "."
Open(name) ==
    /\ Idle
    /\ name # NameDot
    /\ \E o \in OpenAsset(name) :
         /\ assets' = o.assets
         /\ leaked' = (leaked \/ o.leaked)
         /\ ret' = RetOpen("Open", name, o)
    /\ Frame

ReadDirNames == {NameDot, NameSlash, NameAT, NameMissing}

\* A ReadDir that knows the root by the name "." only.
ReadDirOutcomeDotOnly(name) ==
    IF name # NameDot
    THEN [err |-> "ErrNotExist", isDir |-> FALSE, dir |-> <<>>]
    ELSE [err |-> "nil", isDir |-> TRUE, dir |-> DirEntries(assets)]

\* What rfs.ReadDir(name) returns.
ReadDirOutcome(name) ==
    IF name # NameDot /\ name # NameSlash
    THEN [err |-> "ErrNotExist", isDir |-> FALSE, dir |-> <<>>]
    ELSE [err |-> "nil", isDir |-> TRUE, dir |-> DirEntries(assets)]

\* rfs.ReadDir(name)
ReadDir(name) ==
    /\ Idle
    /\ LET o == ReadDirOutcome(name) IN
         ret' = [Ret("ReadDir", name, o.err) EXCEPT !.isDir = o.isDir, !.dir = o.dir]
    /\ UNCHANGED <<assets, leaked>>
    /\ Frame

\* rfs.OpenCachedFile(name), called by the user
CallOpenCachedFile(name) ==
    /\ Idle
    /\ \E o \in OpenCachedFile(name) :
         /\ assets' = o.assets
         /\ leaked' = (leaked \/ o.leaked)
         /\ ret' = RetOpen("OpenCachedFile", name, o)
    /\ Frame

\* rfs.OpenRemoteFile(name), called by the user
CallOpenRemoteFile(name) ==
    /\ Idle
    /\ \E o \in OpenRemoteFile(name) :
         /\ assets' = o.assets
         /\ leaked' = (leaked \/ o.leaked)
         /\ ret' = RetOpen("OpenRemoteFile", name, o)
    /\ Frame

\* Close that releases the stream and keeps the field.
CloseKeepsStream(i) ==
    /\ Idle
    /\ i \in 1..Len(assets)
    /\ UNCHANGED <<opts, fileIndex, server, exposed, cacheDir, manifest,
                   caller, crIdx, t, workers, leaked>>
    /\ IF assets[i].DataStream = NoStream
       THEN /\ pc' = "panic"
            /\ ret' = [Ret("Close", assets[i].IName, "panic") EXCEPT !.file = i]
            /\ UNCHANGED assets
       ELSE /\ assets' = assets
            /\ ret' = [Ret("Close", assets[i].IName, "nil") EXCEPT !.file = i]
            /\ pc' = pc

\* AssetFile.Close on the asset at position i: af.DataStream.Close() on a
\* nil DataStream is a nil dereference.
Close(i) ==
    /\ Idle
    /\ i \in 1..Len(assets)
    /\ UNCHANGED <<opts, fileIndex, server, exposed, cacheDir, manifest,
                   caller, crIdx, t, workers, leaked>>
    /\ IF assets[i].DataStream = NoStream
       THEN /\ pc' = "panic"
            /\ ret' = [Ret("Close", assets[i].IName, "panic") EXCEPT !.file = i]
            /\ UNCHANGED assets
       ELSE /\ assets' = [assets EXCEPT ![i].DataStream = NoStream]
            /\ ret' = [Ret("Close", assets[i].IName, "nil") EXCEPT !.file = i]
            /\ pc' = pc

Next ==
    \/ NewWithOptions
    \/ Reload
    \/ CacheReleaseBegin
    \/ CacheReleaseLoop
    \/ CacheReleaseThrottle
    \/ ThrottleRecvSlot
    \/ ThrottleRecvAll
    \/ \E w \in 1..MaxAssets : Transfer(w)
    \/ OpenRoot
    \/ \E name \in OpenNames : Open(name)
    \/ \E name \in ReadDirNames : ReadDir(name)
    \/ \E i \in 1..MaxAssets : Close(i)

Spec == Init /\ [][Next]_vars

\* The same program with a user who also calls the two exported tier opens.
NextDirect ==
    \/ Next
    \/ \E name \in OpenNames : CallOpenCachedFile(name)
    \/ \E name \in OpenNames : CallOpenRemoteFile(name)

SpecDirect == Init /\ [][NextDirect]_vars

\* The release on the server changes between two calls.
Publish ==
    /\ Idle
    /\ \E p \in Payloads : p # server /\ server' = p
    /\ UNCHANGED <<opts, assets, fileIndex, exposed, cacheDir, manifest,
                   pc, caller, crIdx, t, workers, leaked, ret>>

\* defaultOptions: no cache; the parallel downloads play no part without it.
DefaultOptions ==
    [Cache |-> FALSE, CachePath |-> "", CacheMaxSize |-> 0,
     CacheExtensions |-> <<>>, ParallelDownloads |-> MaxParallel]

InitReload == Init /\ opts = DefaultOptions

\* Loading and reading, without caching, against a server whose release
\* changes between the loads.
NextReload ==
    \/ NewWithOptions
    \/ Reload
    \/ Publish
    \/ OpenRoot
    \/ \E name \in OpenNames : Open(name)
    \/ \E i \in 1..MaxAssets : Close(i)

SpecReload == InitReload /\ [][NextReload]_vars

\* The steps of the thread that runs CacheRelease's loop.
CallingThread ==
    \/ CacheReleaseLoop
    \/ CacheReleaseThrottle
    \/ ThrottleRecvSlot
    \/ ThrottleRecvAll

\* Construction and bulk caching: New, and CacheRelease called by New or
\* by the user, any number of times.
NextCache ==
    \/ NewWithOptions
    \/ CacheReleaseBegin
    \/ CallingThread
    \/ \E w \in 1..MaxAssets : Transfer(w)

\* The Go scheduler keeps running the goroutines of a CacheRelease: while
\* the thread in the loop or a transfer can take a step (its remote call,
\* its file creation and its copy all come back), one of them does.
Fairness ==
    WF_vars(CallingThread \/ \E w \in 1..MaxAssets : Transfer(w))

SpecCache == Init /\ [][NextCache]_vars /\ Fairness

----------------------------------------------------------------------------
(* The URL option.  A URL string is a sequence whose first element is the  *)
(* scheme and host, when it has them, followed by the characters of the    *)
(* rest; "%zz" stands for an escape url.Parse rejects.  The inputs hold no *)
(* valid percent escape, so the decoding of the path changes nothing.      *)

HostGitHub == "https://github.com"
HostOther == "https://ghe.example"
URLHosts == {HostGitHub, HostOther}

githubAPIURL == "api.github.com"

\* u.Hostname()
Hostname(h) == IF h = HostGitHub THEN "github.com" ELSE "ghe.example"

BadEscape == "%zz"

\* url.Parse(urlString).Path: the part after scheme and host, up to the
\* query or the fragment; an error for a string that does not parse.
ParsePath(u) ==
    IF \E i \in 1..Len(u) : u[i] = BadEscape
    THEN [err |-> TRUE, path |-> <<>>, host |-> ""]
    ELSE LET hasHost == Len(u) > 0 /\ u[1] \in URLHosts
             rest == IF hasHost THEN SubSeq(u, 2, Len(u)) ELSE u
             cut == IF \E i \in 1..Len(rest) : rest[i] \in {"?", "#"}
                    THEN (CHOOSE i \in 1..Len(rest) :
                              rest[i] \in {"?", "#"} /\ \A j \in 1..(i-1) : rest[j] \notin {"?", "#"}) - 1
                    ELSE Len(rest)
         IN [err |-> FALSE, path |-> SubSeq(rest, 1, cut),
             host |-> IF hasHost THEN Hostname(u[1]) ELSE ""]

\* The class without the dot.
ClassCharNoDot(c) ==
    c \in {"a", "e", "g", "l", "o", "r", "s", "t", "v", "x", "0", "1", "-", "_"}

\* [A-Za-z0-9-_\.]
ClassChar(c) ==
    c \in {"a", "e", "g", "l", "o", "r", "s", "t", "v", "x", "0", "1", "-", "_", "."}

\* \S
NonSpace(c) == c # " "

\* The end of the longest run of [A-Za-z0-9-_\.] characters that starts at p
\* (p - 1 when there is none).
ClassRunEnd(s, p) ==
    CHOOSE q \in (p-1)..Len(s) :
        /\ \A k \in p..q : ClassChar(s[k])
        /\ q = Len(s) \/ ~ClassChar(s[q+1])

\* The end of the longest run of \S characters that starts at p (p - 1 when
\* there is none).
NonSpaceRunEnd(s, p) ==
    CHOOSE q \in (p-1)..Len(s) :
        /\ \A k \in p..q : NonSpace(s[k])
        /\ q = Len(s) \/ ~NonSpace(s[q+1])

ReleasesTag == <<"/", "r", "e", "l", "e", "a", "s", "e", "s", "/", "t", "a", "g", "/">>

HasAt(s, p, lit) ==
    /\ p + Len(lit) - 1 <= Len(s)
    /\ \A k \in 1..Len(lit) : s[p + k - 1] = lit[k]

\* The match of releasePathPattern that starts at position p of s, as
\* <<org, repo, tag>>, or <<>> when there is none.
MatchAt(s, p) ==
    IF s[p] # "/" THEN <<>>
    ELSE LET e1 == ClassRunEnd(s, p + 1) IN
         IF e1 < p + 1 \/ e1 + 1 > Len(s) \/ s[e1 + 1] # "/" THEN <<>>
         ELSE LET e2 == ClassRunEnd(s, e1 + 2) IN
              IF e2 < e1 + 2 \/ ~HasAt(s, e2 + 1, ReleasesTag) THEN <<>>
              ELSE LET b3 == e2 + 1 + Len(ReleasesTag)
                       e3 == NonSpaceRunEnd(s, b3) IN
                   IF e3 < b3 THEN <<>>
                   ELSE << SubSeq(s, p + 1, e1), SubSeq(s, e1 + 2, e2), SubSeq(s, b3, e3) >>

\* releasePathRegex.FindStringSubmatch(path): the leftmost match.
FindStringSubmatch(s) ==
    IF \E p \in 1..Len(s) : MatchAt(s, p) # <<>>
    THEN MatchAt(s, CHOOSE p \in 1..Len(s) :
                        MatchAt(s, p) # <<>> /\ \A q \in 1..(p-1) : MatchAt(s, q) = <<>>)
    ELSE <<>>

\* FromURL(urlString)(o): the error and the options after the call.
FromURLOutcome(urlString, o) ==
    LET u == ParsePath(urlString) IN
    IF u.err THEN [err |-> "parse", opts |-> o]
    ELSE LET pts == FindStringSubmatch(u.path) IN
         IF pts = <<>>
         THEN [err |-> "URL does not point to a release", opts |-> o]
         ELSE [err |-> "nil",
               opts |-> [o EXCEPT !.Organization = pts[1], !.Repository = pts[2],
                                  !.Tag = pts[3],
                                  !.Host = IF u.host = "github.com" THEN githubAPIURL ELSE @]]

URLOrgs == { <<"o">>, <<"o", "-", "1">>, <<"o", "~">> }
URLRepos == { <<"r">>, <<"r", ".", "g">>, <<"t", "a", "g">> }
URLTags == { <<"v", "1">>, <<"v", "1", ".", "0">>, <<"v", "/", "1">>, <<"v", " ", "1">> }
URLQueries == { <<>>, <<"?", "x">> }

\* https://<host>/<org>/<repo>/releases/tag/<tag>
ReleaseURL(h, o, r, tg) == <<h, "/">> \o o \o <<"/">> \o r \o ReleasesTag \o tg

\* URLs that do not name a release.
OtherURLs ==
    { <<HostGitHub>> \o <<"/", "o", "/", "r", "/", "s", "t", "a", "r", "g", "a", "z", "e", "r", "s">>,
      <<HostGitHub>> \o <<"/", "o", "/", "r", "e", "l", "e", "a", "s", "e", "s", "/", "t", "a", "g", "/", "v", "1">>,
      <<HostGitHub, BadEscape>>,
      <<"a", ",", " ", "a">>,
      <<HostGitHub>> }

URLStrings ==
    { ReleaseURL(h, o, r, tg) \o q :
        h \in URLHosts, o \in URLOrgs, r \in URLRepos, tg \in URLTags, q \in URLQueries }
    \cup OtherURLs

\* The options New starts from, with the host an earlier option may have set.
InitFromURL ==
    /\ opts \in { [Cache |-> FALSE, CachePath |-> "", CacheMaxSize |-> 0,
                   CacheExtensions |-> <<>>, ParallelDownloads |-> MaxParallel,
                   Host |-> h, Organization |-> <<>>, Repository |-> <<>>, Tag |-> <<>>] :
                  h \in {githubAPIURL, "ghe.example"} }
    /\ server = <<>>
    /\ assets = <<>>
    /\ fileIndex = [n \in {} |-> 0]
    /\ exposed = "pending"
    /\ cacheDir = [n \in FileNames |-> NoFile]
    /\ manifest = FALSE
    /\ pc = "optfns"
    /\ caller = "none"
    /\ crIdx = 0
    /\ t = NoThrottler
    /\ workers = <<>>
    /\ leaked = FALSE
    /\ ret = NoRet

\* New(FromURL(urlString)): the option function runs on the options; on an
\* error New returns it, otherwise it goes on to NewWithOptions.
FromURL ==
    /\ pc = "optfns"
    /\ \E urlString \in URLStrings :
         LET r == FromURLOutcome(urlString, opts) IN
           /\ opts' = r.opts
           /\ ret' = Ret("FromURL", urlString, r.err)
           /\ pc' = IF r.err = "nil" THEN "new" ELSE "idle"
           /\ exposed' = IF r.err = "nil" THEN exposed ELSE "no"
    /\ UNCHANGED <<assets, fileIndex, server, cacheDir, manifest, caller, crIdx,
                   t, workers, leaked>>

NextFromURL == FromURL

SpecFromURL == InitFromURL /\ [][NextFromURL]_vars

----------------------------------------------------------------------------
(* Properties *)

\* The transfers that were started and have not yet called Done.
InFlight == { w \in 1..Len(workers) : workers[w].pc \notin {"none", "done"} }

\* CacheRelease has just returned nil to the caller.
CacheReleaseReturnedNil == pc = "idle" /\ ret.cr = "nil"

(* C1: CacheRelease does not return before every transfer it started has   *)
(* called Done: whenever the calling thread is outside CacheRelease, no    *)
(* transfer goroutine is running, and when CacheRelease has returned nil   *)
(* there is one finished transfer per asset.                               *)
C1_JoinBeforeReturn ==
    /\ pc = "idle" => \A w \in 1..Len(workers) : workers[w].pc = "done"
    /\ CacheReleaseReturnedNil =>
         /\ Len(workers) = Len(assets)
         /\ InFlight = {}

\* CacheRelease returned after two transfers ran under a limit of two.
C1_Witness ==
    /\ CacheReleaseReturnedNil
    /\ ret.op = "CacheRelease"
    /\ Len(workers) >= 2
    /\ opts.ParallelDownloads >= 2
    /\ \A w \in 1..Len(workers) : workers[w].pc = "done"

(* C2: when a transfer of CacheRelease failed (its Done got an error),     *)
(* CacheRelease returns a non-nil error.                                   *)
C2_TransferErrorsSurface ==
    CacheReleaseReturnedNil => ret.errs = 0

(* C3: the number of transfers in flight never exceeds ParallelDownloads.  *)
C3_BoundedInFlight ==
    Cardinality(InFlight) <= opts.ParallelDownloads

\* The limit is reached with assets still waiting: the loop is blocked in
\* Throttle for a free slot.
C3_Witness ==
    /\ pc = "recv_slot"
    /\ crIdx < Len(assets)
    /\ Cardinality(InFlight) = opts.ParallelDownloads

(* C4: when CacheRelease returns nil, the cache directory holds the        *)
(* manifest and, for every asset the filters do not exclude, a file named  *)
(* after the asset with the asset's size.                                  *)
C4_CacheHoldsUnfiltered ==
    CacheReleaseReturnedNil =>
        /\ manifest
        /\ \A i \in 1..Len(assets) :
             ~Filtered(assets[i]) =>
                 /\ assets[i].IName \in FileNames
                 /\ cacheDir[assets[i].IName] # NoFile
                 /\ cacheDir[assets[i].IName].size = assets[i].ISize

\* An open of an indexed asset that held no stream has just returned.
OpenedFresh ==
    /\ pc = "idle"
    /\ ret.op = "Open"
    /\ ret.name # NameDot
    /\ Indexed(ret.name)
    /\ ~ret.had

Opened == assets[fileIndex[ret.name]]

(* C5: the bytes of an asset the size or extension filter excludes are     *)
(* never written into the cache directory, and with the cache enabled an   *)
(* Open of such an asset goes past the cache tier to one remote GET.       *)
C5_FilteredNeverCached ==
    /\ \A i \in 1..Len(assets) :
         Filtered(assets[i]) => \A n \in FileNames : cacheDir[n].id # assets[i].ID
    /\ (OpenedFresh /\ opts.Cache /\ Filtered(Opened)) =>
         /\ ret.copens = 1
         /\ ret.err # "ErrNotExist"
         /\ ret.err = "nil" => (ret.gets = 1 /\ Opened.DataStream.kind = "remote")

\* With caching disabled, an open of an indexed asset with no live stream
\* and with a download URL has just returned.
OpenedUncached == OpenedFresh /\ ~opts.Cache /\ Opened.URL # ""

(* C6 as stated: such an open issues exactly one remote GET and, on        *)
(* success, returns the asset with the response stream attached.           *)
C6_ExactlyOneGet ==
    OpenedUncached =>
        /\ ret.gets = 1
        /\ ret.err = "nil" =>
             /\ ret.file = fileIndex[ret.name]
             /\ Opened.DataStream = RemoteStream(assets, ret.file)

(* C6 as amended: such an open issues at most one remote GET; none exactly *)
(* when no client could be built for the URL's host, and then it fails;    *)
(* on success it issued exactly one GET and returns the asset with the     *)
(* response stream attached, without touching the cache.                   *)
C6_AtMostOneGet ==
    OpenedUncached =>
        /\ ret.gets \in {0, 1}
        /\ ret.gets = 0 <=> ret.err = "client"
        /\ ret.copens = 0
        /\ ret.err = "nil" =>
             /\ ret.gets = 1
             /\ ret.file = fileIndex[ret.name]
             /\ Opened.DataStream = RemoteStream(assets, ret.file)

\* One GET was made and its stream is attached.
C6_Witness ==
    /\ OpenedUncached
    /\ ret.err = "nil"
    /\ ret.gets = 1
    /\ Opened.DataStream.kind = "remote"

(* C7: Open of an indexed asset that holds a live stream returns that      *)
(* asset and leaves every stream as it is, with no remote GET and no       *)
(* cache-file open, whether caching is enabled or not.                     *)
C7_LiveStreamReused ==
    [][ \A n \in OpenNames :
          ( /\ Indexed(n) /\ assets[fileIndex[n]].DataStream # NoStream
            /\ ret'.op = "Open" /\ Open(n) ) =>
              /\ assets' = assets
              /\ ret'.err = "nil"
              /\ ret'.file = fileIndex[n]
              /\ ret'.gets = 0
              /\ ret'.copens = 0 ]_vars

\* A second Open of an open asset has returned, with the cache enabled.
C7_Witness ==
    /\ pc = "idle"
    /\ ret.op = "Open"
    /\ ret.had
    /\ ret.err = "nil"
    /\ opts.Cache
    /\ assets[ret.file].DataStream # NoStream

(* C8: in the cache-tier open a missing cache file leads to the remote     *)
(* tier, any other error of the local open fails the call with no remote   *)
(* GET and no stream attached, and a cache file that is there is never     *)
(* passed over for a remote GET.                                           *)
C8_CacheTierFallback ==
    (OpenedFresh /\ opts.Cache /\ opts.CachePath # "") =>
        /\ ret.copens = 1
        /\ ret.err = "cache io" =>
             (ret.gets = 0 /\ ret.file = 0 /\ Opened.DataStream = NoStream)
        /\ (cacheDir[ret.name] = NoFile /\ ret.err # "cache io") =>
             IF Opened.URL = ""
             THEN ret.err = "no URL" /\ ret.gets = 0
             ELSE /\ ret.err \in {"client", "transport", "nil"}
                  /\ ret.gets = 1 <=> ret.err \in {"transport", "nil"}
                  /\ ret.err = "nil" => Opened.DataStream = RemoteStream(assets, ret.file)
        /\ cacheDir[ret.name] # NoFile =>
             /\ ret.err \in {"cache io", "nil"}
             /\ ret.gets = 0
             /\ ret.err = "nil" => Opened.DataStream = FileStream(assets, ret.name)

\* The cache file was missing and the remote tier served the open.
C8_Witness ==
    /\ OpenedFresh
    /\ opts.Cache
    /\ cacheDir[ret.name] = NoFile
    /\ ret.copens = 1
    /\ ret.gets = 1
    /\ ret.err = "nil"

(* C9: Open of a name other than "." that is not in the index fails with   *)
(* ErrNotExist, makes no remote GET and no cache-file open, and changes    *)
(* neither an asset nor the index nor the cache nor the options.           *)
C9_NotFoundChangesNothing ==
    [][ \A n \in OpenNames :
          (~Indexed(n) /\ ret'.op = "Open" /\ Open(n)) =>
              /\ ret'.err = "ErrNotExist"
              /\ ret'.file = 0
              /\ ret'.gets = 0
              /\ ret'.copens = 0
              /\ UNCHANGED <<assets, fileIndex, cacheDir, manifest, opts>> ]_vars

\* A missing name was opened while another asset held a live stream.
C9_Witness ==
    /\ pc = "idle"
    /\ ret.op = "Open"
    /\ ret.name = NameMissing
    /\ ret.err = "ErrNotExist"
    /\ \E i \in 1..Len(assets) : assets[i].DataStream # NoStream

(* C10: once New has returned the file system, Open(".") can be called in  *)
(* every state between calls; it succeeds, makes no remote GET and no      *)
(* cache-file open, and ReadDir of the directory it returns lists every    *)
(* asset in the order of the loaded release.                               *)
C10_RootAlwaysOpens ==
    /\ (pc = "idle" /\ exposed = "yes") => ENABLED OpenRoot
    /\ (pc = "idle" /\ ret.op = "Open" /\ ret.name = NameDot) =>
         /\ ret.err = "nil"
         /\ ret.isDir
         /\ ret.gets = 0
         /\ ret.copens = 0
         /\ ReleaseDirReadDir(ret.dir) = [i \in 1..Len(server) |-> server[i].ID]
         /\ Len(ret.dir) = Len(assets)

\* The root was opened with the cache enabled, two assets and one of them
\* open.
C10_Witness ==
    /\ pc = "idle"
    /\ ret.op = "Open"
    /\ ret.name = NameDot
    /\ opts.Cache
    /\ Len(ReleaseDirReadDir(ret.dir)) >= 2
    /\ \E i \in 1..Len(assets) : assets[i].DataStream # NoStream

(* C11: Close of an asset that holds a live stream clears the asset's      *)
(* stream field, and the Open that follows the Close of that asset does    *)
(* not answer with a stream it found attached: it enters the tier chain,   *)
(* and when it succeeds it has made one cache-file open or one remote GET  *)
(* and has attached the stream that produced.                              *)
C11_CloseForcesReopen ==
    [][ /\ \A i \in 1..Len(assets) :
             (assets[i].DataStream # NoStream /\ Close(i)) =>
                 /\ assets'[i].DataStream = NoStream
                 /\ \A j \in 1..Len(assets) : j # i => assets'[j] = assets[j]
        /\ \A n \in OpenNames :
             ( /\ ret.op = "Close" /\ Indexed(n) /\ ret.file = fileIndex[n]
               /\ ret'.op = "Open" /\ Open(n) ) =>
                 /\ ~ret'.had
                 /\ ret'.reopen
                 /\ ret'.err = "nil" =>
                      /\ ret'.gets + ret'.copens >= 1
                      /\ assets'[fileIndex[n]].DataStream # NoStream ]_vars

\* An asset was closed and then opened again, through the remote tier.
C11_Witness ==
    /\ pc = "idle"
    /\ ret.op = "Open"
    /\ ret.reopen
    /\ ret.err = "nil"
    /\ ret.gets = 1
    /\ assets[ret.file].DataStream.kind = "remote"

(* C12: Close of an asset whose stream is already released (closed before, *)
(* never opened, or detached by CacheRelease) completes without failure    *)
(* and leaves the asset as it was, with no stream.                         *)
C12_CloseIdempotent ==
    [][ \A i \in 1..Len(assets) :
          (assets[i].DataStream = NoStream /\ Close(i)) =>
              /\ pc' = "idle"
              /\ assets' = assets
              /\ ret'.op = "Close"
              /\ ret'.err = "nil" ]_vars

(* C13: an asset's stream is never replaced while still unreleased: in     *)
(* every sequence of Open, OpenCachedFile, OpenRemoteFile, Close and       *)
(* CacheRelease calls, a stream is attached to an asset only when the      *)
(* asset holds no live stream.                                             *)
C13_StreamNeverReplacedLive == ~leaked

\* The index addresses exactly the non-empty names of the asset sequence,
\* each at a position that holds an asset of that name.
IndexMatches(as, idx) ==
    /\ DOMAIN idx = { as[i].IName : i \in 1..Len(as) } \ {<<>>}
    /\ \A n \in DOMAIN idx : idx[n] \in 1..Len(as) /\ as[idx[n]].IName = n

(* C14: a LoadRelease that decodes the payload, the first or a later one,  *)
(* leaves as asset sequence exactly the decoded assets of the payload the  *)
(* server serves, empty-named ones included, with no stream and no cache   *)
(* path, and an index whose keys are exactly the non-empty names of that   *)
(* sequence, each mapped to a position holding an asset of that name; the  *)
(* same sequence and index are there when the load returns success.        *)
C14_IndexRebuiltOnLoad ==
    [][ /\ ( /\ pc = "new" \/ Idle
             /\ server' = server
             /\ pc' = "cr_call" \/ (pc' = "idle" /\ ret'.replaced /\ ret'.err = "nil") ) =>
                 /\ assets' = [i \in 1..Len(server) |-> Decoded(server[i])]
                 /\ IndexMatches(assets', fileIndex')
        /\ ( /\ server' = server
             /\ pc # "idle"
             /\ pc' = "idle" /\ ret'.replaced /\ ret'.err = "nil" ) =>
                 /\ IDs(assets') = IDs(server)
                 /\ IndexMatches(assets', fileIndex') ]_vars

\* A reload has replaced a release of two assets by a different release
\* that holds an asset without a name.
C14_Witness ==
    /\ pc = "idle"
    /\ ret.op = "LoadRelease"
    /\ ret.err = "nil"
    /\ ret.changed
    /\ IDs(assets) = IDs(server)
    /\ \E i \in 1..Len(assets) : assets[i].IName = <<>>
    /\ Cardinality(DOMAIN fileIndex) < Len(assets)

(* C15: when LoadRelease returns an error, the file system the caller      *)
(* holds does not expose the release decoded by that load: the call has    *)
(* not assigned rfs.Release.                                               *)
C15_FailedLoadExposesNothing ==
    (pc = "idle" /\ exposed = "yes" /\ ret.op = "LoadRelease" /\ ret.err # "nil") =>
        ~ret.replaced

(* C16: a LoadRelease whose metadata call fails returns an error to its    *)
(* caller, a transport error when there is no response and an HTTP-status  *)
(* error when the status is outside [200,399], and in both cases leaves    *)
(* the assets and the index as they were.                                  *)
C16_LoadFailureReturnsError ==
    [][ ( /\ pc = "new" \/ Idle
          /\ pc' # "cr_call"
          /\ ~(pc' = "idle" /\ ret'.op \in {"New", "LoadRelease"} /\ ret'.replaced)
          /\ NewWithOptions \/ Reload ) =>
              /\ pc' = "idle"
              /\ ret'.err \in {"loading release", "HTTP error", "unmarshaling release data"}
              /\ UNCHANGED <<assets, fileIndex>> ]_vars

\* A ReadDir has just returned.
ReadDirReturned == pc = "idle" /\ ret.op = "ReadDir"

(* C17 as stated: ReadDir(".") returns every asset in order as directory   *)
(* entries, and ReadDir of any other path fails with not-found.            *)
C17_OnlyDotIsRoot ==
    ReadDirReturned =>
        IF ret.name = NameDot
        THEN ret.err = "nil" /\ ret.dir = IDs(assets)
        ELSE ret.err = "ErrNotExist" /\ ret.dir = <<>>

(* C17 as amended: ReadDir(".") and ReadDir("/") return every asset in     *)
(* order as directory entries, and ReadDir of any other path fails with    *)
(* not-found and returns no entries.                                       *)
C17_DotAndSlashAreRoot ==
    ReadDirReturned =>
        IF ret.name \in {NameDot, NameSlash}
        THEN ret.err = "nil" /\ ret.dir = IDs(assets) /\ Len(ret.dir) = Len(server)
        ELSE ret.err = "ErrNotExist" /\ ret.dir = <<>>

\* ReadDir("/") has listed two assets, one of them open.
C17_Witness ==
    /\ ReadDirReturned
    /\ ret.name = NameSlash
    /\ ret.err = "nil"
    /\ Len(ret.dir) >= 2
    /\ \E i \in 1..Len(assets) : assets[i].DataStream # NoStream

\* FromURL has just been applied to the URL string ret.name.
FromURLApplied == ret.op = "FromURL"

\* The string holds "releases/tag/" followed by at least one character.
HasTagSegment(u) ==
    \E p \in 1..Len(u) :
        /\ HasAt(u, p, SubSeq(ReleasesTag, 2, Len(ReleasesTag)))
        /\ p + Len(ReleasesTag) - 1 <= Len(u)

NothingSet == opts.Organization = <<>> /\ opts.Repository = <<>> /\ opts.Tag = <<>>

(* C18 as stated: applied to any URL https://<host>/<org>/<repo>/releases/ *)
(* tag/<tag>, FromURL sets organization, repository and tag to exactly     *)
(* (org, repo, tag); applied to a URL with no releases/tag/<tag> segment   *)
(* it fails and sets none of them.                                         *)
C18_AnyReleaseURL ==
    FromURLApplied =>
        /\ \A h \in URLHosts, o \in URLOrgs, r \in URLRepos, tg \in URLTags :
             ret.name = ReleaseURL(h, o, r, tg) =>
                 /\ ret.err = "nil"
                 /\ opts.Organization = o /\ opts.Repository = r /\ opts.Tag = tg
        /\ ~HasTagSegment(ret.name) => (ret.err # "nil" /\ NothingSet)

\* Letters, digits, "-", "_" and "." only.
NameChars == {"a", "e", "g", "l", "o", "r", "s", "t", "v", "x", "0", "1", "-", "_", "."}

PlainName(sq) == Len(sq) > 0 /\ \A i \in 1..Len(sq) : sq[i] \in NameChars

PlainTag(sq) == Len(sq) > 0 /\ \A i \in 1..Len(sq) : sq[i] \notin {" ", "?", "#"}

(* C18 as amended: applied to a URL https://<host>/<org>/<repo>/releases/  *)
(* tag/<tag>, with or without a query, in which <org> and <repo> consist   *)
(* of letters, digits, "-", "_" and "." and <tag> holds no white space,    *)
(* FromURL sets organization, repository and tag to exactly (org, repo,    *)
(* tag); applied to a URL that does not parse or has no releases/tag/<tag> *)
(* segment it fails and sets none of them.                                 *)
C18_PlainReleaseURL ==
    FromURLApplied =>
        /\ \A h \in URLHosts, o \in URLOrgs, r \in URLRepos, tg \in URLTags, q \in URLQueries :
             (ret.name = ReleaseURL(h, o, r, tg) \o q /\ PlainName(o) /\ PlainName(r) /\ PlainTag(tg)) =>
                 /\ ret.err = "nil"
                 /\ opts.Organization = o /\ opts.Repository = r /\ opts.Tag = tg
        /\ ~HasTagSegment(ret.name) => (ret.err # "nil" /\ NothingSet)
        /\ ret.err # "nil" => NothingSet

\* A URL with a dot in the repository, a slash in the tag and a query has
\* been taken apart.
C18_Witness ==
    /\ FromURLApplied
    /\ ret.err = "nil"
    /\ \E h \in URLHosts, o \in URLOrgs :
         ret.name = ReleaseURL(h, o, <<"r", ".", "g">>, <<"v", "/", "1">>) \o <<"?", "x">>
    /\ opts.Repository = <<"r", ".", "g">>
    /\ opts.Tag = <<"v", "/", "1">>

ManifestErrors == {"creating release data file", "encoding release data"}

(* C19: in CacheRelease the manifest is written before any transfer        *)
(* starts: the loop is entered, and a transfer goroutine started, only     *)
(* with the manifest in the cache directory; and when creating or encoding *)
(* the manifest fails, CacheRelease returns an error having started no     *)
(* transfer, written no cache file and left the cache flag as it was.      *)
C19_ManifestBeforeTransfers ==
    [][ /\ pc' \in {"loop", "throttle", "recv_slot", "recv_all"} => manifest'
        /\ (\E w \in 1..Len(workers') : workers'[w].pc \notin {"none", "done"}) => manifest'
        /\ ( /\ pc = "cr_call" \/ Idle
             /\ pc' = "idle"
             /\ ret'.cr \in ManifestErrors ) =>
                 /\ ret'.err # "nil"
                 /\ opts'.Cache = opts.Cache
                 /\ UNCHANGED <<workers, t, cacheDir, assets>> ]_vars

\* The user's CacheRelease failed on the manifest of a release with assets,
\* on a file system built without cache.
C19_Witness ==
    /\ pc = "idle"
    /\ ret.op = "CacheRelease"
    /\ ret.cr \in ManifestErrors
    /\ ~opts.Cache
    /\ Len(assets) >= 1
    /\ InFlight = {}

(* C20: when CacheRelease has returned from its loop, the cache flag is    *)
(* enabled and every asset whose copy succeeded in that run holds no live  *)
(* stream, and the Open of such an asset that follows is served from its   *)
(* cache file, with one cache-file open and no remote GET.                 *)
C20_CopiedAssetsServedFromCache ==
    [][ /\ CacheReleaseReturnedNil' =>
             /\ opts'.Cache
             /\ \A w \in 1..Len(workers') :
                  workers'[w].copied => assets'[w].DataStream = NoStream
        /\ \A n \in OpenNames :
             ( /\ CacheReleaseReturnedNil
               /\ Indexed(n)
               /\ workers[fileIndex[n]].copied
               /\ Open(n) ) =>
                   /\ ret'.copens = 1
                   /\ ret'.gets = 0
                   /\ ret'.err = "nil" => assets'[fileIndex[n]].DataStream.kind = "file" ]_vars

\* The calling thread is inside CacheRelease's loop.
InLoop == pc \in {"loop", "throttle", "recv_slot", "recv_all"}

(* C21: a transfer that fails during CacheRelease does not stop the       *)
(* others.  The step in which a transfer reports its error to Done changes *)
(* no other transfer, no file of the cache directory and not the position  *)
(* of the loop, and gives its slot back to the throttler; no step removes  *)
(* a file from the cache directory, and a transfer writes no file but the  *)
(* one named after its asset; and once a transfer has failed, every asset  *)
(* of the release still has its transfer admitted and run to its Done      *)
(* (unless a transfer ends the program in a panic).                        *)
C21_FailedTransferStopsNoOther ==
    /\ [][ /\ \A w \in 1..Len(workers) :
                (t'.errorCount = t.errorCount + 1 /\ Transfer(w)) =>
                    /\ cacheDir' = cacheDir
                    /\ \A v \in 1..Len(workers) : v # w => workers'[v] = workers[v]
                    /\ workers'[w].pc = "done"
                    /\ pc' = pc /\ crIdx' = crIdx
                    /\ t'.doneChan = t.doneChan + 1
           /\ \A n \in FileNames : cacheDir[n] # NoFile => cacheDir'[n] # NoFile
           /\ \A w \in 1..Len(workers) :
                (InLoop /\ cacheDir' # cacheDir /\ Transfer(w)) =>
                    \A n \in FileNames : n # assets[w].IName => cacheDir'[n] = cacheDir[n] ]_vars
    /\ (InLoop /\ t.errorCount > 0) ~>
           \/ pc = "panic"
           \/ /\ Len(workers) = Len(assets)
              /\ \A w \in 1..Len(workers) : workers[w].pc = "done"

\* With one download at a time, the first asset's transfer failed, the
\* second asset's was admitted after it and copied its file, which is there
\* when CacheRelease has returned.
C21_Witness ==
    /\ CacheReleaseReturnedNil
    /\ opts.ParallelDownloads = 1
    /\ Len(workers) = 2
    /\ ret.errs = 1
    /\ workers[2].copied
    /\ cacheDir[assets[2].IName] # NoFile

(* C22: concurrent transfers of CacheRelease share no mutable state: a     *)
(* step of the transfer of the asset at position w changes no asset but    *)
(* the one at w, and the stream it copies from is that asset's own.        *)
C22_TransfersTouchOwnAssetOnly ==
    [][ \A w \in 1..Len(workers) :
          (InLoop /\ workers[w].pc \notin {"none", "done"} /\ Transfer(w)) =>
              /\ \A v \in 1..Len(assets) : v # w => assets'[v] = assets[v]
              /\ workers'[w].src \in {0, w} ]_vars

(* C23: CacheRelease always terminates.  For every number of assets and    *)
(* every ParallelDownloads >= 1, when every transfer finishes (none ends in *)
(* a panic), the loop is never blocked forever in Throttle: a CacheRelease  *)
(* that entered its loop returns to its caller.                            *)
C23_CacheReleaseTerminates ==
    InLoop ~> (pc = "idle" \/ pc = "panic")

\* CacheRelease returned after its loop waited in Throttle for a free slot
\* and for the last transfers.
C23_Witness ==
    /\ CacheReleaseReturnedNil
    /\ Len(workers) = MaxAssets
    /\ opts.ParallelDownloads = 1
    /\ \A w \in 1..Len(workers) : workers[w].pc = "done"

(* C24: on a file system that New or NewWithOptions returned, after any    *)
(* sequence of LoadRelease, CacheRelease, Open and Close calls, an enabled  *)
(* cache flag implies a non-empty cache path, and no Open has failed with  *)
(* the "release cache path not set" error.                                 *)
C24_CacheImpliesPath ==
    /\ (exposed = "yes" /\ opts.Cache) => opts.CachePath # ""
    /\ ret.op = "Open" => ret.err # "cache path not set"

\* An Open went through the cache tier and returned the asset.
C24_Witness ==
    /\ Idle
    /\ opts.Cache
    /\ ret.op = "Open"
    /\ ret.copens = 1
    /\ ret.err = "nil"

====
